---- MODULE Spec2Model ----
(***************************************************************************)
(* Translation-project lifecycle of the PIAE backend: project creation     *)
(* with load-balanced translator assignment, translation submission, the   *)
(* customer review workflow (approve / reject with feedback) and the       *)
(* administrator's close.  Every request handler is a process whose steps  *)
(* are its store / blob / mail operations; handlers interleave between     *)
(* those operations.                                                       *)
(***************************************************************************)
EXTENDS Integers, Sequences, FiniteSets, TLC

\* ------------------------------------------------------------------ bounds
MaxProjects == 3
LifeProjects == 1
MaxCount == 5

\* ------------------------------------------------------- program constants
max_upload_mb == 5
MaxBytes == max_upload_mb * 1024 * 1024

\* ------------------------------------------------------------------ domains
Customers == {"c1", "c2"}
Translators == {"t1", "t2"}
Admins == {"admin"}
Users == Customers \cup Translators \cup Admins
Handlers == {"h1", "h2"}
ProjectIds == 1..MaxProjects
None == "none"

\* UserRole of a registered account
Role(u) ==
  IF u \in Customers THEN "CUSTOMER"
  ELSE IF u \in Translators THEN "TRANSLATOR"
  ELSE "ADMINISTRATOR"

\* ProjectState
CREATED == "CREATED"
ASSIGNED == "ASSIGNED"
COMPLETED == "COMPLETED"
APPROVED == "APPROVED"
CLOSED == "CLOSED"
ProjectState == {CREATED, ASSIGNED, COMPLETED, APPROVED, CLOSED}

\* language codes as submitted by clients, and str.lower() on them
LangInputs == {"cs", "CS", "de"}
Lower(l) == IF l = "CS" THEN "cs" ELSE l
\* the languages translators register in this model ("de" stays without translators)
CapLangInputs == {"cs", "CS"}

\* feedback texts are sequences of characters; " " is whitespace
ApproveTexts == {<<>>, <<"a">>}
RejectTexts == {<<>>, <<" ">>, <<"b">>}

\* str.strip(): drop leading and trailing whitespace
RECURSIVE StripLeft(_)
StripLeft(t) == IF t /= <<>> /\ Head(t) = " " THEN StripLeft(Tail(t)) ELSE t
RECURSIVE StripRight(_)
StripRight(t) ==
  IF t /= <<>> /\ t[Len(t)] = " " THEN StripRight(SubSeq(t, 1, Len(t) - 1)) ELSE t
\* the text taken as it is
NoStrip(t) == t
Strip(t) == StripRight(StripLeft(t))

\* upload sizes a client may send: within the limit, and one byte over it
Sizes == {1, MaxBytes + 1}

VARIABLES
  projects,    \* collection `projects`: sequence of documents, id = index
  feedbacks,   \* collection `feedbacks`: sequence of documents, in natural order
  caps,        \* collection `translator_languages`, in natural (insertion) order
  blobs,       \* GridFS: the ids of the stored files that something still refers to
  h,           \* request handlers: handler -> its locals and position (`raced`
               \* notes that a review began while the project was COMPLETED)
  review,      \* per project: review wins since it last became COMPLETED, and
               \* whether a review ever won (`ever`)
  selIn,       \* input of a stand-alone selection (candidates, counts)
  selOut       \* its result

vars == <<projects, feedbacks, caps, blobs, h, review, selIn, selOut>>
storeVars == <<projects, feedbacks, caps, blobs, review>>
selVars == <<selIn, selOut>>

NoProject == [id |-> 0, customer_id |-> None, translator_id |-> None,
              language_code |-> None, original_file_id |-> 0,
              translated_file_id |-> 0, state |-> None, feedback_id |-> 0]
NoFeedback == [project_id |-> 0, id |-> 0, text |-> <<>>]
NoReview == [wins |-> 0, target |-> None, ever |-> FALSE]

Idle == [op |-> "idle", pc |-> "idle", user |-> None, pid |-> 0, lang |-> None,
         text |-> <<>>, blob |-> 0, snap |-> NoProject, cands |-> <<>>,
         chosen |-> None, fbid |-> 0, mailed |-> {}, result |-> 0,
         raced |-> FALSE]

\* ProjectRepository.get_by_id
get_by_id(pid) == IF pid \in 1..Len(projects) THEN projects[pid] ELSE NoProject

\* FeedbackRepository.get_by_project_id: find_one, the first match
get_by_project_id(pid) ==
  IF \E i \in 1..Len(feedbacks) : feedbacks[i].project_id = pid
  THEN feedbacks[CHOOSE i \in 1..Len(feedbacks) :
                   /\ feedbacks[i].project_id = pid
                   /\ \A j \in 1..(i - 1) : feedbacks[j].project_id /= pid]
  ELSE NoFeedback


\* ------------------------------------------------------- assignment engine

\* the capability query without its language_code filter
list_translator_ids(cs, language_code) == [i \in 1..Len(cs) |-> cs[i].translator_id]

\* TranslatorLanguageRepository.list_translator_ids_for_language
RECURSIVE list_translator_ids_for_language(_, _)
list_translator_ids_for_language(cs, language_code) ==
  IF cs = <<>> THEN <<>>
  ELSE IF Head(cs).language_code = language_code
       THEN <<Head(cs).translator_id>>
              \o list_translator_ids_for_language(Tail(cs), language_code)
       ELSE list_translator_ids_for_language(Tail(cs), language_code)

SeqRange(s) == {s[i] : i \in 1..Len(s)}

\* a $match on the state ASSIGNED alone
IsAssigned(p) == p.state = ASSIGNED

\* the $match stage of count_active_by_translator_ids
IsActive(p) == p.state /= CLOSED

\* ProjectRepository.count_active_by_translator_ids, on the stored projects ps
count_active_by_translator_ids(ps, translator_ids) ==
  [t \in SeqRange(translator_ids) |->
     Cardinality({i \in 1..Len(ps) : ps[i].translator_id = t /\ IsActive(ps[i])})]

\* a lookup that finds no count for anybody
CountOfNobody(counts, tid) == 0

\* counts.get(str(tid), 0)
CountOf(counts, tid) == IF tid \in DOMAIN counts THEN counts[tid] ELSE 0

\* the loop's test written with <= : a later candidate with an equal count wins
BetterOrEqual(best, best_count, c) == best = None \/ c <= best_count

\* the loop's test `best is None or best_count is None or c < best_count`
Better(best, best_count, c) == best = None \/ c < best_count

\* the loop of find_best_translator_id from position i on
RECURSIVE BestLoop(_, _, _, _, _)
BestLoop(translator_ids, counts, i, best, best_count) ==
  IF i > Len(translator_ids) THEN best
  ELSE LET tid == translator_ids[i]
           c == CountOf(counts, tid)
       IN IF Better(best, best_count, c)
          THEN BestLoop(translator_ids, counts, i + 1, tid, c)
          ELSE BestLoop(translator_ids, counts, i + 1, best, best_count)

\* ProjectAssignmentService.find_best_translator_id, after its two queries
find_best_translator_id(translator_ids, counts) ==
  IF translator_ids = <<>> THEN None
  ELSE BestLoop(translator_ids, counts, 1, None, 0)

\* ------------------------------------------------------------ store writes

\* the $set without the state
assign_translator_only(p, translator_id, state) ==
  [p EXCEPT !.translator_id = translator_id]

\* ProjectRepository.assign_translator: matched on the id alone
assign_translator(p, translator_id, state) ==
  [p EXCEPT !.translator_id = translator_id, !.state = state]

\* a close that also takes the project from its translator
close_and_unassign(p) == [p EXCEPT !.state = CLOSED, !.translator_id = None]

\* ProjectRepository.close_project: matched on the id alone
close_project(p) == [p EXCEPT !.state = CLOSED]

\* the filter of ProjectRepository.submit_translation
SubmitMatches(p, translator_id) == p.id /= 0 /\ p.translator_id = translator_id

\* the $set naming the customer's file instead of the translator's
submit_translation_original(p, translated_file_id) ==
  [p EXCEPT !.original_file_id = translated_file_id, !.state = COMPLETED]

\* the $set without the state
submit_translation_file(p, translated_file_id) ==
  [p EXCEPT !.translated_file_id = translated_file_id]

\* the $set of ProjectRepository.submit_translation
submit_translation(p, translated_file_id) ==
  [p EXCEPT !.translated_file_id = translated_file_id, !.state = COMPLETED]

\* the filter without the customer_id condition
ReviewMatchesAnyOwner(p, customer_id, expected_state) ==
  p.id /= 0 /\ p.state = expected_state

\* the filter without the state condition
ReviewMatchesAnyState(p, customer_id, expected_state) ==
  p.id /= 0 /\ p.customer_id = customer_id

\* the filter of ProjectRepository.set_feedback_and_state_if_customer
ReviewMatches(p, customer_id, expected_state) ==
  p.id /= 0 /\ p.customer_id = customer_id /\ p.state = expected_state

\* the $set without the feedback_id
set_state(p, new_state, feedback_id) == [p EXCEPT !.state = new_state]

\* the $set of ProjectRepository.set_feedback_and_state_if_customer
set_feedback_and_state(p, new_state, feedback_id) ==
  [p EXCEPT !.state = new_state, !.feedback_id = feedback_id]

\* upsert_for_project when no stored Feedback is looked up: the uuid4 of the new
\* Feedback is always kept
KeepFreshId(existing, fresh) == fresh

\* upsert_for_project: the id of an existing Feedback replaces the fresh uuid4
FeedbackIdFor(existing, fresh) == IF existing /= NoFeedback THEN existing.id ELSE fresh

\* an update_one that inserts without looking for a match
insert_one(fbs, project_id, fbid, text) ==
  Append(fbs, [project_id |-> project_id, id |-> fbid, text |-> text])

\* update_one({project_id}, {$set: document}, upsert=True) of upsert_for_project:
\* the first match is updated, and a document is inserted when nothing matches
update_one_upsert(fbs, project_id, fbid, text) ==
  LET doc == [project_id |-> project_id, id |-> fbid, text |-> text]
      hits == {i \in 1..Len(fbs) : fbs[i].project_id = project_id}
  IN IF hits = {} THEN Append(fbs, doc)
     ELSE [fbs EXCEPT ![CHOOSE i \in hits : \A j \in hits : i <= j] = doc]

\* ---------------------------------------------------------------- helpers

\* File ids (GridFS ObjectId) and Feedback ids (uuid4) are fresh values that are
\* only ever compared for equality.  An id that no document and no handler holds
\* any more is never observed again, so a fresh id is the least one not held,
\* and `blobs` forgets a stored file once nothing refers to it (an orphan).
ReferencedBlobs ==
  {projects[i].original_file_id : i \in 1..Len(projects)}
    \cup {projects[i].translated_file_id : i \in 1..Len(projects)}
    \cup {h[k].blob : k \in Handlers}
FreshBlob == CHOOSE b \in 1..(Cardinality(ReferencedBlobs) + 1) : b \notin ReferencedBlobs
HeldFeedbackIds ==
  {feedbacks[i].id : i \in 1..Len(feedbacks)}
    \cup {projects[i].feedback_id : i \in 1..Len(projects)}
    \cup {h[k].fbid : k \in Handlers}
FreshFeedbackId == CHOOSE f \in 1..(Cardinality(HeldFeedbackIds) + 1) : f \notin HeldFeedbackIds
Set(k, rec) == h' = [h EXCEPT ![k] = rec]
\* A handler keeps of a document it has read only the fields it reads later;
\* a local it never reads again returns to its initial value.
Keep(p, fields) ==
  [f \in DOMAIN NoProject |-> IF f \in fields THEN p[f] ELSE NoProject[f]]
\* a request refused before its first store or blob operation: its locals are dead
Refused(op, code) == [Idle EXCEPT !.op = op, !.pc = "done", !.result = code]
Done(k, code) == Set(k, [h[k] EXCEPT !.pc = "done", !.result = code])
PendingCreates ==
  Cardinality({k \in Handlers : h[k].op = "create" /\ h[k].pc \in {"upload", "persist"}})

\* the empty database and idle handlers
InitStore ==
  /\ projects = <<>>
  /\ feedbacks = <<>>
  /\ caps = <<>>
  /\ blobs = {}
  /\ h = [k \in Handlers |-> Idle]
  /\ review = [p \in ProjectIds |-> NoReview]

Init ==
  /\ InitStore
  /\ selIn = [cands |-> <<>>, counts |-> <<>>]
  /\ selOut = "unset"

\* ------------------------------------------------------------ createProject

\* a create_project that uploads before it checks anything
CreateStartUnchecked(k, user, lang, size) ==
  /\ h[k].op = "idle"
  /\ Set(k, [Idle EXCEPT !.op = "create", !.user = user, !.pc = "upload",
                         !.lang = Lower(lang)])
  /\ UNCHANGED <<storeVars, selVars>>

\* POST /projects up to the first await of ProjectService.create_project
CreateStart(k, user, lang, size) ==
  /\ h[k].op = "idle"
  /\ LET me == [Idle EXCEPT !.op = "create", !.user = user]
     IN IF Role(user) /= "CUSTOMER" THEN Set(k, Refused("create", 403))
        ELSE IF size > MaxBytes THEN Set(k, Refused("create", 413))
        ELSE Set(k, [me EXCEPT !.pc = "upload", !.lang = Lower(lang)])
  /\ UNCHANGED <<storeVars, selVars>>

\* GridFsService.upload of the original file
CreateUpload(k) ==
  /\ h[k].op = "create" /\ h[k].pc = "upload"
  /\ blobs' = blobs \cup {FreshBlob}
  /\ Set(k, [h[k] EXCEPT !.pc = "persist", !.blob = FreshBlob])
  /\ UNCHANGED <<projects, feedbacks, caps, review, selVars>>

\* the failure of the upload goes unnoticed: the request goes on with the id
\* of a file that was not stored
CreateUploadLost(k) ==
  /\ h[k].op = "create" /\ h[k].pc = "upload"
  /\ Set(k, [h[k] EXCEPT !.pc = "persist", !.blob = FreshBlob])
  /\ UNCHANGED <<storeVars, selVars>>

\* GridFsService.upload raises: nothing was stored, the request fails
CreateUploadFails(k) ==
  /\ h[k].op = "create" /\ h[k].pc = "upload"
  /\ Done(k, 500)
  /\ UNCHANGED <<storeVars, selVars>>

\* the Project(...) built by create_project: state CREATED, no translator
NewProject(id, customer_id, language_code, original_file_id) ==
  [id |-> id, customer_id |-> customer_id, translator_id |-> None,
   language_code |-> language_code, original_file_id |-> original_file_id,
   translated_file_id |-> 0, state |-> CREATED, feedback_id |-> 0]

\* ProjectRepository.create
CreatePersist(k) ==
  /\ h[k].op = "create" /\ h[k].pc = "persist"
  /\ LET id == Len(projects) + 1
     IN /\ projects' = Append(projects, NewProject(id, h[k].user, h[k].lang, h[k].blob))
        /\ Set(k, [h[k] EXCEPT !.pc = "list", !.pid = id, !.blob = 0])
  /\ UNCHANGED <<feedbacks, caps, blobs, review, selVars>>

\* find_best_translator_id: the capability query
CreateList(k) ==
  /\ h[k].op = "create" /\ h[k].pc = "list"
  /\ LET ids == list_translator_ids_for_language(caps, h[k].lang)
     IN Set(k, [h[k] EXCEPT !.cands = ids, !.lang = None,
                            !.pc = IF ids = <<>> THEN "assign" ELSE "count"])
  /\ UNCHANGED <<storeVars, selVars>>

\* a selection that reserves its choice: the translator is written at once
CreateCountReserving(k) ==
  /\ h[k].op = "create" /\ h[k].pc = "count"
  /\ LET counts == count_active_by_translator_ids(projects, h[k].cands)
         best == find_best_translator_id(h[k].cands, counts)
     IN /\ Set(k, [h[k] EXCEPT !.chosen = best, !.cands = <<>>, !.pc = "assign"])
        /\ projects' = [projects EXCEPT ![h[k].pid] = assign_translator(@, best, ASSIGNED)]
  /\ UNCHANGED <<feedbacks, caps, blobs, review, selVars>>

\* find_best_translator_id: the count query and the selection loop
CreateCount(k) ==
  /\ h[k].op = "create" /\ h[k].pc = "count"
  /\ LET counts == count_active_by_translator_ids(projects, h[k].cands)
     IN Set(k, [h[k] EXCEPT !.chosen = find_best_translator_id(h[k].cands, counts),
                            !.cands = <<>>, !.pc = "assign"])
  /\ UNCHANGED <<storeVars, selVars>>

\* an assignment step that writes only when a translator was found
CreateAssignIfFound(k) ==
  /\ h[k].op = "create" /\ h[k].pc = "assign"
  /\ projects' = [projects EXCEPT ![h[k].pid] =
        IF h[k].chosen = None THEN @ ELSE assign_translator(@, h[k].chosen, ASSIGNED)]
  /\ Set(k, [h[k] EXCEPT !.pc = "notify"])
  /\ UNCHANGED <<feedbacks, caps, blobs, review, selVars>>

\* an assignment step that selects again, on the store as it is at the write
CreateAssignRecounting(k) ==
  /\ h[k].op = "create" /\ h[k].pc = "assign"
  /\ LET ids == list_translator_ids_for_language(caps, get_by_id(h[k].pid).language_code)
         now == find_best_translator_id(ids, count_active_by_translator_ids(projects, ids))
     IN projects' = [projects EXCEPT ![h[k].pid] =
           IF now = None THEN close_project(@) ELSE assign_translator(@, now, ASSIGNED)]
  /\ Set(k, [h[k] EXCEPT !.pc = "notify"])
  /\ UNCHANGED <<feedbacks, caps, blobs, review, selVars>>

\* assign_or_close: the one store write of the assignment step
CreateAssign(k) ==
  /\ h[k].op = "create" /\ h[k].pc = "assign"
  /\ projects' = [projects EXCEPT ![h[k].pid] =
        IF h[k].chosen = None THEN close_project(@)
        ELSE assign_translator(@, h[k].chosen, ASSIGNED)]
  /\ Set(k, [h[k] EXCEPT !.pc = "notify"])
  /\ UNCHANGED <<feedbacks, caps, blobs, review, selVars>>

\* whom create_project mails: the translator if one was assigned, else the customer
CreateRecipient(k) == IF h[k].chosen /= None THEN h[k].chosen ELSE h[k].user

\* EmailService.send returns
CreateNotify(k) ==
  /\ h[k].op = "create" /\ h[k].pc = "notify"
  /\ Set(k, [h[k] EXCEPT !.pc = "reload", !.mailed = {CreateRecipient(k)}])
  /\ UNCHANGED <<storeVars, selVars>>

\* a failed mail undoes the assignment
CreateNotifyFailsRollback(k) ==
  /\ h[k].op = "create" /\ h[k].pc = "notify"
  /\ projects' = [projects EXCEPT ![h[k].pid] = assign_translator(@, None, CREATED)]
  /\ Set(k, [h[k] EXCEPT !.pc = "done", !.result = 500, !.mailed = {CreateRecipient(k)}])
  /\ UNCHANGED <<feedbacks, caps, blobs, review, selVars>>

\* EmailService.send raises (SMTP failure): the exception leaves the handler
CreateNotifyFails(k) ==
  /\ h[k].op = "create" /\ h[k].pc = "notify"
  /\ Set(k, [h[k] EXCEPT !.pc = "done", !.result = 500, !.mailed = {CreateRecipient(k)}])
  /\ UNCHANGED <<storeVars, selVars>>

\* the project as create_project built it, before the assignment step
StaleSnapshot(k) ==
  [get_by_id(h[k].pid) EXCEPT !.state = CREATED, !.translator_id = None]

\* the snapshot create_project returns: the stored project, read again
StoredSnapshot(k) == get_by_id(h[k].pid)

\* the fields of ProjectOut
ProjectOutFields == {"id", "customer_id", "translator_id", "language_code", "state"}

\* get_by_id after the assignment step, and the 201 response
CreateReload(k) ==
  /\ h[k].op = "create" /\ h[k].pc = "reload"
  /\ Set(k, [h[k] EXCEPT !.pc = "done", !.result = 201,
                         !.snap = Keep(StoredSnapshot(k), ProjectOutFields)])
  /\ UNCHANGED <<storeVars, selVars>>

\* the response has been sent; the handler is free for the next request
Return(k) ==
  /\ h[k].pc = "done"
  /\ Set(k, Idle)
  /\ UNCHANGED <<storeVars, selVars>>


\* -------------------------------------------------------- submitTranslation

\* a submit_translation without the test of the project's state
SubmitStartAnyState(k, user, pid, size) ==
  /\ h[k].op = "idle"
  /\ LET project == get_by_id(pid)
         me == [Idle EXCEPT !.op = "submit", !.user = user, !.pid = pid]
         fail(code) == Set(k, Refused("submit", code))
     IN IF Role(user) /= "TRANSLATOR" THEN fail(403)
        ELSE IF project = NoProject THEN fail(404)
        ELSE IF project.translator_id /= user THEN fail(403)
        ELSE IF size > MaxBytes THEN fail(413)
        ELSE Set(k, [me EXCEPT !.pc = "upload", !.snap = Keep(project, {"customer_id"})])
  /\ UNCHANGED <<storeVars, selVars>>

\* POST /{project_id}/translation up to the upload: role check, get_by_id,
\* the translator and state checks, the size check
SubmitStart(k, user, pid, size) ==
  /\ h[k].op = "idle"
  /\ LET project == get_by_id(pid)
         me == [Idle EXCEPT !.op = "submit", !.user = user, !.pid = pid]
         fail(code) == Set(k, Refused("submit", code))
     IN IF Role(user) /= "TRANSLATOR" THEN fail(403)
        ELSE IF project = NoProject THEN fail(404)
        ELSE IF project.translator_id /= user THEN fail(403)
        ELSE IF project.state \notin {ASSIGNED, COMPLETED} THEN fail(409)
        ELSE IF size > MaxBytes THEN fail(413)
        ELSE Set(k, [me EXCEPT !.pc = "upload", !.snap = Keep(project, {"customer_id"})])
  /\ UNCHANGED <<storeVars, selVars>>

\* GridFsService.upload of the translated file
SubmitUpload(k) ==
  /\ h[k].op = "submit" /\ h[k].pc = "upload"
  /\ blobs' = blobs \cup {FreshBlob}
  /\ Set(k, [h[k] EXCEPT !.pc = "write", !.blob = FreshBlob])
  /\ UNCHANGED <<projects, feedbacks, caps, review, selVars>>

\* GridFsService.upload raises
SubmitUploadFails(k) ==
  /\ h[k].op = "submit" /\ h[k].pc = "upload"
  /\ Done(k, 500)
  /\ UNCHANGED <<storeVars, selVars>>

\* repo.submit_translation and the 409 when nothing matched
SubmitWrite(k) ==
  /\ h[k].op = "submit" /\ h[k].pc = "write"
  /\ IF SubmitMatches(get_by_id(h[k].pid), h[k].user)
     THEN /\ projects' = [projects EXCEPT ![h[k].pid] = submit_translation(@, h[k].blob)]
          /\ review' = [review EXCEPT ![h[k].pid] = [NoReview EXCEPT !.ever = review[h[k].pid].ever]]
          /\ blobs' = blobs \ {get_by_id(h[k].pid).translated_file_id}
          /\ Set(k, [h[k] EXCEPT !.pc = "notify", !.blob = 0])
     ELSE /\ blobs' = blobs \ {h[k].blob}
          /\ Set(k, [h[k] EXCEPT !.pc = "done", !.result = 409, !.blob = 0])
          /\ UNCHANGED <<projects, review>>
  /\ UNCHANGED <<feedbacks, caps, selVars>>

\* the customer is mailed; EmailService.send returns
SubmitNotify(k) ==
  /\ h[k].op = "submit" /\ h[k].pc = "notify"
  /\ Set(k, [h[k] EXCEPT !.pc = "done", !.result = 204, !.mailed = {h[k].snap.customer_id}])
  /\ UNCHANGED <<storeVars, selVars>>

\* EmailService.send raises
SubmitNotifyFails(k) ==
  /\ h[k].op = "submit" /\ h[k].pc = "notify"
  /\ Set(k, [h[k] EXCEPT !.pc = "done", !.result = 500, !.mailed = {h[k].snap.customer_id}])
  /\ UNCHANGED <<storeVars, selVars>>

\* ---------------------------------------------------------- approve / reject

\* the state a successful review moves the project to
TargetState(op) == IF op = "approve" THEN APPROVED ELSE ASSIGNED

\* `not (text or "").strip()` in ProjectReviewService.reject
IsBlank(text) == Strip(text) = <<>>

\* POST /{project_id}/approve and /reject up to the update of upsert_for_project:
\* body validation, role check, reject's blank check, the Feedback built with a
\* fresh uuid4, and get_by_project_id whose id replaces the fresh one
ReviewStart(k, op, user, pid, text) ==
  /\ h[k].op = "idle"
  /\ LET existing == get_by_project_id(pid)
         me == [Idle EXCEPT !.op = op, !.user = user, !.pid = pid, !.text = text,
                            !.raced = (get_by_id(pid).state = COMPLETED)]
         fail(code) == Set(k, Refused(op, code))
     IN IF op = "reject" /\ Len(text) < 1 THEN fail(422)
        ELSE IF Role(user) /= "CUSTOMER" THEN fail(403)
        ELSE IF op = "reject" /\ IsBlank(text) THEN fail(409)
        ELSE Set(k, [me EXCEPT !.pc = "upsert",
                               !.fbid = FeedbackIdFor(existing, FreshFeedbackId)])
  /\ UNCHANGED <<storeVars, selVars>>

\* a review that goes to the conditional update without writing its Feedback
ReviewUpsertSkipped(k) ==
  /\ h[k].op \in {"approve", "reject"} /\ h[k].pc = "upsert"
  /\ Set(k, [h[k] EXCEPT !.pc = "cas"])
  /\ UNCHANGED <<storeVars, selVars>>

\* the update_one(..., upsert=True) of upsert_for_project
ReviewUpsert(k) ==
  /\ h[k].op \in {"approve", "reject"} /\ h[k].pc = "upsert"
  /\ feedbacks' = update_one_upsert(feedbacks, h[k].pid, h[k].fbid, h[k].text)
  /\ Set(k, [h[k] EXCEPT !.pc = "cas"])
  /\ UNCHANGED <<projects, caps, blobs, review, selVars>>

\* set_feedback_and_state_if_customer, and the 409 when nothing matched
ReviewCas(k) ==
  /\ h[k].op \in {"approve", "reject"} /\ h[k].pc = "cas"
  /\ IF ReviewMatches(get_by_id(h[k].pid), h[k].user, COMPLETED)
     THEN /\ projects' = [projects EXCEPT ![h[k].pid] =
                 set_feedback_and_state(@, TargetState(h[k].op), h[k].fbid)]
          /\ review' = [review EXCEPT ![h[k].pid] =
                 [wins |-> @.wins + 1, target |-> TargetState(h[k].op), ever |-> TRUE]]
          /\ Set(k, [h[k] EXCEPT !.pc = "reload"])
     ELSE /\ Done(k, 409)
          /\ UNCHANGED <<projects, review>>
  /\ UNCHANGED <<feedbacks, caps, blobs, selVars>>

\* get_by_id after the review; without a translator nobody is mailed
ReviewReload(k) ==
  /\ h[k].op \in {"approve", "reject"} /\ h[k].pc = "reload"
  /\ LET project == get_by_id(h[k].pid)
     IN IF project /= NoProject /\ project.translator_id /= None
        THEN Set(k, [h[k] EXCEPT !.pc = "notify", !.snap = Keep(project, {"translator_id"})])
        ELSE Set(k, [h[k] EXCEPT !.pc = "done", !.result = 204])
  /\ UNCHANGED <<storeVars, selVars>>

\* the translator is mailed; EmailService.send returns
ReviewNotify(k) ==
  /\ h[k].op \in {"approve", "reject"} /\ h[k].pc = "notify"
  /\ Set(k, [h[k] EXCEPT !.pc = "done", !.result = 204, !.mailed = {h[k].snap.translator_id}])
  /\ UNCHANGED <<storeVars, selVars>>

\* EmailService.send raises
ReviewNotifyFails(k) ==
  /\ h[k].op \in {"approve", "reject"} /\ h[k].pc = "notify"
  /\ Set(k, [h[k] EXCEPT !.pc = "done", !.result = 500, !.mailed = {h[k].snap.translator_id}])
  /\ UNCHANGED <<storeVars, selVars>>

\* ---------------------------------------------------------------- closeProject

\* POST /admin/projects/{project_id}/close up to the write: role check, get_by_id
CloseStart(k, user, pid) ==
  /\ h[k].op = "idle"
  /\ LET project == get_by_id(pid)
         me == [Idle EXCEPT !.op = "close", !.user = user, !.pid = pid]
     IN IF Role(user) /= "ADMINISTRATOR" THEN Set(k, Refused("close", 403))
        ELSE IF project = NoProject THEN Set(k, Refused("close", 404))
        ELSE Set(k, [me EXCEPT !.pc = "write",
                               !.snap = Keep(project, {"customer_id", "translator_id"})])
  /\ UNCHANGED <<storeVars, selVars>>

\* repo.close_project
CloseWrite(k) ==
  /\ h[k].op = "close" /\ h[k].pc = "write"
  /\ projects' = [projects EXCEPT ![h[k].pid] = close_project(@)]
  /\ Set(k, [h[k] EXCEPT !.pc = "notify"])
  /\ UNCHANGED <<feedbacks, caps, blobs, review, selVars>>

\* the mails of admin_close_project, in order: the customer, then the translator
CloseRecipients(k) ==
  <<h[k].snap.customer_id>> \o
    (IF h[k].snap.translator_id /= None THEN <<h[k].snap.translator_id>> ELSE <<>>)

\* every EmailService.send returns
CloseNotify(k) ==
  /\ h[k].op = "close" /\ h[k].pc = "notify"
  /\ Set(k, [h[k] EXCEPT !.pc = "done", !.result = 204, !.mailed = SeqRange(CloseRecipients(k))])
  /\ UNCHANGED <<storeVars, selVars>>

\* the n-th EmailService.send raises: the later mails are not sent
CloseNotifyFails(k, n) ==
  /\ h[k].op = "close" /\ h[k].pc = "notify"
  /\ n \in 1..Len(CloseRecipients(k))
  /\ Set(k, [h[k] EXCEPT !.pc = "done", !.result = 500,
                         !.mailed = SeqRange(SubSeq(CloseRecipients(k), 1, n))])
  /\ UNCHANGED <<storeVars, selVars>>

\* ------------------------------------------------------------------ crashes

\* The server process stops while handler k is between two of its operations:
\* the request is never answered and its locals are lost.  What it wrote stays.
Crash(k) ==
  /\ h[k].op /= "idle" /\ h[k].pc /= "done"
  /\ Set(k, Idle)
  /\ blobs' = blobs \ {h[k].blob}
  /\ UNCHANGED <<projects, feedbacks, caps, review, selVars>>

\* --------------------------------------------------- translator capabilities

\* an add_language whose filter never matches a stored capability
NoCap(translator_id, language_code) == FALSE

\* the filter of add_language's upsert (the pair of the unique index)
HasCap(translator_id, language_code) ==
  \E i \in 1..Len(caps) :
    caps[i] = [translator_id |-> translator_id, language_code |-> language_code]

\* POST /translators/{id}/languages: add_language inserts only if absent
AddLanguage(translator_id, lang) ==
  /\ caps' = IF HasCap(translator_id, Lower(lang)) THEN caps
             ELSE Append(caps, [translator_id |-> translator_id,
                                language_code |-> Lower(lang)])
  /\ UNCHANGED <<projects, feedbacks, blobs, review, h, selVars>>

\* DELETE /translators/{id}/languages/{code}: delete_language
DeleteLanguage(translator_id, lang) ==
  /\ caps' = SelectSeq(caps, LAMBDA c :
        c /= [translator_id |-> translator_id, language_code |-> Lower(lang)])
  /\ UNCHANGED <<projects, feedbacks, blobs, review, h, selVars>>

\* ------------------------------------------------------------ specifications

\* The steps of handler k when no blob upload and no mail fails.  `creators`
\* are the users who send POST /projects, `pids` the project ids that requests
\* name (at most Cardinality(pids) projects are created), `atexts` the texts
\* sent with an approval.  A review names a stored project: project ids are
\* uuid4 values, which no client knows before the project exists.
Step(k, creators, pids, atexts) ==
  \/ \E user \in creators, lang \in LangInputs, size \in Sizes :
        /\ Len(projects) + PendingCreates < Cardinality(pids)
        /\ CreateStart(k, user, lang, size)
  \/ CreateUpload(k)
  \/ CreatePersist(k)
  \/ CreateList(k)
  \/ CreateCount(k)
  \/ CreateAssign(k)
  \/ CreateNotify(k)
  \/ CreateReload(k)
  \/ \E user \in Users, pid \in pids, size \in Sizes : SubmitStart(k, user, pid, size)
  \/ SubmitUpload(k)
  \/ SubmitWrite(k)
  \/ SubmitNotify(k)
  \/ \E user \in Users, pid \in pids \cap (1..Len(projects)), text \in atexts :
        ReviewStart(k, "approve", user, pid, text)
  \/ \E user \in Users, pid \in pids \cap (1..Len(projects)), text \in RejectTexts :
        ReviewStart(k, "reject", user, pid, text)
  \/ ReviewUpsert(k)
  \/ ReviewCas(k)
  \/ ReviewReload(k)
  \/ ReviewNotify(k)
  \/ \E user \in Users, pid \in pids : CloseStart(k, user, pid)
  \/ CloseWrite(k)
  \/ CloseNotify(k)
  \/ Return(k)

\* the steps of handler k in which GridFS or the SMTP server fails, or the
\* process stops
FailStep(k) ==
  \/ CreateUploadFails(k)
  \/ CreateNotifyFails(k)
  \/ SubmitUploadFails(k)
  \/ SubmitNotifyFails(k)
  \/ ReviewNotifyFails(k)
  \/ \E n \in 1..2 : CloseNotifyFails(k, n)
  \/ Crash(k)

\* translators `ts` register and drop languages
CapStep(ts) ==
  \/ \E t \in ts, lang \in CapLangInputs : AddLanguage(t, lang)
  \/ \E t \in ts, lang \in CapLangInputs : DeleteLanguage(t, lang)

\* Request handlers interleave freely between their store operations; GridFS
\* and SMTP work.  One project, created by c1 and open to translator t1; c2 acts
\* as the customer who does not own it and t2 as the translator who is not
\* assigned to it.
Next ==
  \/ \E k \in Handlers : Step(k, Users \ {"c2"}, 1..LifeProjects, {<<>>})
  \/ CapStep({"t1"})

Spec == Init /\ [][Next]_vars

\* Request handlers never interleave: one runs to its response before the next
\* starts.  Every customer creates projects, every translator registers,
\* GridFS and SMTP may fail, and the process may stop in the middle of a request.
SeqNext ==
  \/ Step("h1", Users, 1..LifeProjects, ApproveTexts)
  \/ FailStep("h1")
  \/ h["h1"].op = "idle" /\ CapStep(Translators)

SeqSpec == Init /\ [][SeqNext]_vars

\* The assignment workload, without interleaving: a customer creates projects
\* for the translators to share, the administrator closes them, and translators
\* register and drop languages in between.
LoadStep(k) ==
  \/ \E user \in Users \ {"c2"}, lang \in LangInputs, size \in Sizes :
        /\ Len(projects) + PendingCreates < MaxProjects
        /\ CreateStart(k, user, lang, size)
  \/ CreateUpload(k)
  \/ CreatePersist(k)
  \/ CreateList(k)
  \/ CreateCount(k)
  \/ CreateAssign(k)
  \/ CreateNotify(k)
  \/ CreateReload(k)
  \/ \E pid \in ProjectIds : CloseStart(k, "admin", pid)
  \/ CloseWrite(k)
  \/ CloseNotify(k)
  \/ Return(k)

LoadNext ==
  \/ LoadStep("h1")
  \/ h["h1"].op = "idle" /\ CapStep(Translators)

LoadSpec == Init /\ [][LoadNext]_vars

\* Concurrent creations: two handlers create projects for the language cs and
\* interleave between their store operations; the translators register for cs
\* before the first request arrives.
RaceStep(k) ==
  \/ /\ Len(projects) + PendingCreates < MaxProjects
     /\ CreateStart(k, "c1", "cs", 1)
  \/ CreateUpload(k)
  \/ CreatePersist(k)
  \/ CreateList(k)
  \/ CreateCount(k)
  \/ CreateAssign(k)
  \/ CreateNotify(k)
  \/ CreateReload(k)
  \/ Return(k)

RaceNext ==
  \/ \E k \in Handlers : RaceStep(k)
  \/ /\ projects = <<>> /\ \A k \in Handlers : h[k].op = "idle"
     /\ \E t \in Translators : AddLanguage(t, "cs")

RaceSpec == Init /\ [][RaceNext]_vars

\* The same requests when the process does not stop and the event loop resumes
\* every handler whose awaited store operation has returned: the two queries
\* and the write of assign_or_close are eventually run.
FairRaceSpec ==
  RaceSpec /\ \A k \in Handlers : WF_vars(CreateList(k) \/ CreateCount(k) \/ CreateAssign(k))

\* find_best_translator_id on its own: any list of distinct candidates, in any
\* order, with any active counts up to MaxCount
SelIds == {"t1", "t2", "t3"}
SelLists ==
  {l \in UNION {[1..n -> SelIds] : n \in 0..Cardinality(SelIds)} :
     \A i, j \in DOMAIN l : i /= j => l[i] /= l[j]}

SelectInit ==
  /\ InitStore
  /\ \E l \in SelLists : \E c \in [SeqRange(l) -> 0..MaxCount] :
       selIn = [cands |-> l, counts |-> c]
  /\ selOut = "unset"

RunSelect ==
  /\ selOut = "unset"
  /\ selOut' = find_best_translator_id(selIn.cands, selIn.counts)
  /\ UNCHANGED <<storeVars, h, selIn>>

SelectSpec == SelectInit /\ [][RunSelect]_vars

\* Creations one after the other and nothing else: the translators register
\* for cs before the first request, then customers create projects for cs, each
\* request running to its response before the next starts.
BalanceNext ==
  \/ /\ Len(projects) + PendingCreates < MaxProjects
     /\ \E user \in Customers : CreateStart("h1", user, "cs", 1)
  \/ CreateUpload("h1")
  \/ CreatePersist("h1")
  \/ CreateList("h1")
  \/ CreateCount("h1")
  \/ CreateAssign("h1")
  \/ CreateNotify("h1")
  \/ CreateReload("h1")
  \/ Return("h1")
  \/ /\ projects = <<>> /\ h["h1"].op = "idle"
     /\ \E t \in Translators : AddLanguage(t, "cs")

BalanceSpec == Init /\ [][BalanceNext]_vars

\* The count query on its own: any stored projects of the shapes the handlers
\* leave behind (a project without translator is CREATED or CLOSED, one with a
\* translator is ASSIGNED, COMPLETED, APPROVED or CLOSED), and any candidate
\* list of the registered translators.
ProjectKinds ==
  ({None} \X {CREATED, CLOSED}) \cup (Translators \X {ASSIGNED, COMPLETED, APPROVED, CLOSED})

CountProject(id, kind) ==
  [NewProject(id, "c1", "cs", 2 * id - 1) EXCEPT
     !.translator_id = kind[1], !.state = kind[2],
     !.translated_file_id = IF kind[2] \in {COMPLETED, APPROVED} THEN 2 * id ELSE 0,
     !.feedback_id = IF kind[2] = APPROVED THEN id ELSE 0]

CountInit ==
  /\ \E n \in 0..MaxProjects : \E kinds \in [1..n -> ProjectKinds] :
       projects = [i \in 1..n |-> CountProject(i, kinds[i])]
  /\ feedbacks = SelectSeq([i \in 1..Len(projects) |-> [project_id |-> i, id |-> i, text |-> <<>>]],
                           LAMBDA f : projects[f.project_id].state = APPROVED)
  /\ \E l \in {s \in SelLists : SeqRange(s) \subseteq Translators} :
       /\ caps = [i \in 1..Len(l) |-> [translator_id |-> l[i], language_code |-> "cs"]]
       /\ selIn = [cands |-> l, counts |-> <<>>]
  /\ h = [k \in Handlers |-> Idle]
  /\ blobs = ReferencedBlobs \ {0}
  /\ review = [p \in ProjectIds |->
                 IF p <= Len(projects) /\ projects[p].state = APPROVED
                 THEN [wins |-> 1, target |-> APPROVED, ever |-> TRUE] ELSE NoReview]
  /\ selOut = "unset"

\* find_best_translator_id from its count query on
RunCount ==
  /\ selOut = "unset"
  /\ LET counts == count_active_by_translator_ids(projects, selIn.cands)
     IN /\ selIn' = [selIn EXCEPT !.counts = counts]
        /\ selOut' = find_best_translator_id(selIn.cands, counts)
  /\ UNCHANGED <<storeVars, h>>

CountSpec == CountInit /\ [][RunCount]_vars

\* ================================================================ claims

ReviewOps == {"approve", "reject"}
Stored == 1..Len(projects)
\* handler k takes the step that leaves position pc (the process does not stop)
Leaves(k, pc) == h[k].pc = pc /\ h'[k].pc /= pc /\ h'[k].op = h[k].op

\* C1: CLOSED is terminal: once a project's stored state is CLOSED, no step of
\* any handler changes it to another state.
C1_ClosedIsTerminal ==
  [][\A p \in Stored : projects[p].state = CLOSED => projects'[p].state = CLOSED]_vars

\* C2: a review changes the project only at its conditional update and only if
\* at that instant the project is COMPLETED and owned by the caller; otherwise
\* the call is denied (409) and the project document is unchanged.
C2_ReviewOnlyWhenCompletedAndOwned ==
  [][\A k \in Handlers :
       /\ (h[k].op \in ReviewOps /\ h[k].pc /= "cas" /\ h'[k] /= h[k])
            => projects' = projects
       /\ (h[k].op = "idle" /\ h'[k].op \in ReviewOps) => projects' = projects
       /\ (h[k].op \in ReviewOps /\ Leaves(k, "cas")) =>
            LET p == get_by_id(h[k].pid)
            IN IF p.id /= 0 /\ p.state = COMPLETED /\ p.customer_id = h[k].user
               THEN /\ projects' = [projects EXCEPT ![h[k].pid] =
                          [p EXCEPT !.state = TargetState(h[k].op),
                                    !.feedback_id = h[k].fbid]]
                    /\ h'[k].pc = "reload"
               ELSE /\ projects' = projects
                    /\ h'[k].pc = "done" /\ h'[k].result = 409]_vars

\* C2 witness: the customer who does not own the COMPLETED project was denied
C2_Witness ==
  \E k \in Handlers :
    /\ h[k].op \in ReviewOps /\ h[k].pc = "done" /\ h[k].result = 409
    /\ h[k].pid \in Stored /\ h[k].raced
    /\ projects[h[k].pid].state = COMPLETED
    /\ projects[h[k].pid].customer_id /= h[k].user

\* C3: of the reviews of a project since it last became COMPLETED at most one
\* has won its conditional update, and the project is in the winner's target
\* state (until an administrator closes it).
C3_AtMostOneReviewWins ==
  \A p \in Stored :
    /\ review[p].wins <= 1
    /\ review[p].wins = 1 => projects[p].state \in {review[p].target, CLOSED}

\* C3 witness: two reviews by the owner began on the COMPLETED project; one got
\* its result, the other was denied
C3_Witness ==
  \E k1, k2 \in Handlers :
    /\ k1 /= k2 /\ h[k1].pid = h[k2].pid /\ h[k1].pid \in Stored
    /\ h[k1].op \in ReviewOps /\ h[k2].op \in ReviewOps
    /\ h[k1].raced /\ h[k2].raced
    /\ h[k1].user = projects[h[k1].pid].customer_id /\ h[k2].user = h[k1].user
    /\ h[k1].pc = "done" /\ h[k1].result = 204
    /\ h[k2].pc = "done" /\ h[k2].result = 409
    /\ review[h[k1].pid].wins = 1
    /\ projects[h[k1].pid].state = TargetState(h[k1].op)

\* C4: when an approve and a reject by the owner both began on the COMPLETED
\* project and both have finished, one with its result and one denied, the
\* stored Feedback text is the winner's text.
C4_LoserNeverOverwrites ==
  \A k1, k2 \in Handlers :
    ( /\ k1 /= k2 /\ h[k1].pid = h[k2].pid /\ h[k1].pid \in Stored
      /\ {h[k1].op, h[k2].op} = ReviewOps
      /\ h[k1].raced /\ h[k2].raced
      /\ h[k1].user = projects[h[k1].pid].customer_id /\ h[k2].user = h[k1].user
      /\ h[k1].pc = "done" /\ h[k1].result = 204
      /\ h[k2].pc = "done" /\ h[k2].result = 409 )
    => get_by_project_id(h[k1].pid).text = h[k1].text

\* C5: the selection returns None for no candidates; otherwise a candidate whose
\* count is the minimum, and the first such candidate in listing order.
C5_LeastLoadedFirstListed ==
  selOut /= "unset" =>
    LET l == selIn.cands
        c == selIn.counts
    IN IF l = <<>> THEN selOut = None
       ELSE \E i \in DOMAIN l :
              /\ selOut = l[i]
              /\ \A j \in DOMAIN l : c[l[j]] >= c[l[i]]
              /\ \A j \in 1..(i - 1) : c[l[j]] > c[l[i]]

\* C5 witness: counts 5, 1, 1 select the second listed translator
C5_Witness ==
  /\ selIn.cands = <<"t1", "t2", "t3">>
  /\ selIn.counts = [t \in SelIds |-> IF t = "t1" THEN 5 ELSE 1]
  /\ selOut = "t2"

\* a createProject of handler k that has made its assignment write
Assigned(k) == h[k].op = "create" /\ h[k].pc \in {"notify", "reload", "done"} /\ h[k].pid /= 0
Created(k) == h[k].op = "create" /\ h[k].pc = "done" /\ h[k].result = 201
Registered(language_code) == \E t \in Translators : HasCap(t, language_code)

\* C6: a createProject for a language with no registered translator leaves the
\* project CLOSED with no translator, picks no translator, and when it returns
\* it has mailed the customer and nobody else.
C6_NoTranslatorCloses ==
  LET k == "h1"
      p == get_by_id(h[k].pid)
  IN (Assigned(k) /\ ~Registered(p.language_code)) =>
       /\ p.state = CLOSED /\ p.translator_id = None /\ h[k].chosen = None
       /\ Created(k) => /\ h[k].mailed = {h[k].user}
                        /\ h[k].snap.state = CLOSED
                        /\ h[k].snap.translator_id = None

\* C6 witness: translators are registered, but none for the project's language
C6_Witness ==
  /\ Created("h1") /\ caps /= <<>>
  /\ get_by_id(h["h1"].pid).language_code = "de"
  /\ get_by_id(h["h1"].pid).state = CLOSED
  /\ h["h1"].mailed = {"c1"}

\* the store as the createProject of handler k found it at its selection
BeforeAssign(k) ==
  [projects EXCEPT ![h[k].pid] = [@ EXCEPT !.translator_id = None, !.state = CREATED]]
EngineChoice(k) ==
  LET ids == list_translator_ids_for_language(caps, get_by_id(h[k].pid).language_code)
  IN find_best_translator_id(ids, count_active_by_translator_ids(BeforeAssign(k), ids))

\* C7: a createProject that runs alone for a language with a registered
\* translator returns with the project ASSIGNED to the translator the
\* assignment engine chooses, owned by the caller, and that translator mailed.
C7_AssignsEngineChoice ==
  LET k == "h1"
      p == get_by_id(h[k].pid)
  IN (Created(k) /\ Registered(p.language_code)) =>
       /\ p.state = ASSIGNED
       /\ p.translator_id = EngineChoice(k) /\ p.translator_id \in Translators
       /\ p.customer_id = h[k].user
       /\ h[k].mailed = {p.translator_id}
       /\ h[k].snap.state = ASSIGNED /\ h[k].snap.translator_id = p.translator_id

\* C7 witness: t1 is listed first but has an active project, so the second
\* project went to t2
C7_Witness ==
  /\ Created("h1") /\ h["h1"].pid = 2
  /\ list_translator_ids_for_language(caps, "cs") = <<"t1", "t2">>
  /\ projects[1].translator_id = "t1" /\ projects[1].state = ASSIGNED
  /\ projects[2].translator_id = "t2" /\ projects[2].state = ASSIGNED
  /\ h["h1"].mailed = {"t2"}

\* C8: the snapshot a createProject returns never has state CREATED.
C8_ReturnsFinalState ==
  \A k \in Handlers : Created(k) => h[k].snap.state /= CREATED

\* C8 witness: the returned snapshot shows a translation delivered between the
\* assignment and the final read
C8_Witness ==
  \E k \in Handlers : Created(k) /\ h[k].snap.state = COMPLETED

\* C9: the write of a submitTranslation by the assigned translator on an
\* ASSIGNED or COMPLETED project sets state COMPLETED and translated_file_id to
\* the file just uploaded and changes no other field; the customer is mailed next.
C9_SubmitCompletes ==
  [][\A k \in Handlers : h[k].op = "submit" =>
       LET p == get_by_id(h[k].pid)
       IN /\ (Leaves(k, "write") /\ p.translator_id = h[k].user
                                  /\ p.state \in {ASSIGNED, COMPLETED}) =>
               /\ h[k].blob \in blobs /\ h[k].blob /= p.translated_file_id
               /\ projects' = [projects EXCEPT ![h[k].pid] =
                     [p EXCEPT !.state = COMPLETED, !.translated_file_id = h[k].blob]]
               /\ h'[k].pc = "notify"
          /\ Leaves(k, "notify") =>
               /\ h'[k].mailed = {p.customer_id} /\ h'[k].result = 204
               /\ projects' = projects]_vars

\* C9 witness: a second delivery replaced the first translated file (file 2)
C9_Witness ==
  \E k \in Handlers :
    /\ h[k].op = "submit" /\ h[k].pc = "done" /\ h[k].result = 204
    /\ h[k].mailed = {"c1"}
    /\ get_by_id(h[k].pid).state = COMPLETED
    /\ get_by_id(h[k].pid).translated_file_id = 3

Rejected(k) == h[k].op = "reject" /\ h[k].pc = "done" /\ h[k].result = 204

\* C10: a reject by the owner with non-blank text on a COMPLETED project leaves
\* the project ASSIGNED with the same translator and translated file, the text in
\* the project's Feedback record, feedback_id naming that record, and the
\* translator mailed.
C10_RejectReturnsToTranslator ==
  /\ [](LET k == "h1"
            p == get_by_id(h[k].pid)
        IN Rejected(k) =>
             /\ ~IsBlank(h[k].text) /\ p.customer_id = h[k].user
             /\ p.state = ASSIGNED
             /\ get_by_project_id(h[k].pid).text = h[k].text
             /\ p.feedback_id = get_by_project_id(h[k].pid).id /\ p.feedback_id /= 0
             /\ p.translated_file_id /= 0
             /\ p.translator_id \in Translators /\ h[k].mailed = {p.translator_id})
  /\ [][LET k == "h1"
            p == get_by_id(h[k].pid)
        IN (h[k].op = "reject" /\ Leaves(k, "cas")
              /\ p.state = COMPLETED /\ p.customer_id = h[k].user) =>
             /\ projects' = [projects EXCEPT ![h[k].pid] =
                   [p EXCEPT !.state = ASSIGNED, !.feedback_id = h[k].fbid]]
             /\ h[k].fbid = get_by_project_id(h[k].pid).id
             /\ feedbacks' = feedbacks /\ h'[k].pc = "reload"]_vars

\* C10 witness: the reject with text "b" has returned
C10_Witness ==
  /\ Rejected("h1") /\ h["h1"].text = <<"b">>
  /\ get_by_id(h["h1"].pid).state = ASSIGNED
  /\ get_by_project_id(h["h1"].pid).text = <<"b">>
  /\ h["h1"].mailed = {"t1"}

Closed(k) == h[k].op = "close" /\ h[k].pc = "done" /\ h[k].result = 204

\* C11: the write of closeProject sets state CLOSED and changes no other field
\* of the project (nothing at all when it is already CLOSED) and is followed by
\* the mails; when closeProject returns the project is CLOSED and the customer
\* and, if the project has one, the translator were mailed.
C11_CloseSetsOnlyState ==
  /\ [](LET k == "h1"
            p == get_by_id(h[k].pid)
        IN Closed(k) =>
             /\ p.state = CLOSED
             /\ h[k].mailed = {p.customer_id} \cup ({p.translator_id} \ {None}))
  /\ [][LET k == "h1"
            p == get_by_id(h[k].pid)
        IN (h[k].op = "close" /\ Leaves(k, "write")) =>
             /\ p /= NoProject
             /\ projects' = [projects EXCEPT ![h[k].pid] = [p EXCEPT !.state = CLOSED]]
             /\ p.state = CLOSED => projects' = projects
             /\ feedbacks' = feedbacks
             /\ h'[k].pc = "notify"]_vars

\* C11 witness: a reviewed project with its translated file was closed and both
\* parties were mailed
C11_Witness ==
  /\ Closed("h1") /\ h["h1"].mailed = {"c1", "t1"}
  /\ get_by_id(h["h1"].pid).state = CLOSED
  /\ get_by_id(h["h1"].pid).translated_file_id /= 0
  /\ get_by_id(h["h1"].pid).feedback_id /= 0

\* every character of the text is whitespace (the empty text included)
AllSpaces(text) == \A i \in 1..Len(text) : text[i] = " "

\* C12: a reject whose text is empty or all whitespace is refused at once,
\* whoever sends it and whatever the project's state, with the store untouched;
\* a reject that goes on to its store operations carries a non-blank text.
C12_BlankRejectTouchesNothing ==
  /\ []((h["h1"].op = "reject" /\ h["h1"].pc /= "done") => ~AllSpaces(h["h1"].text))
  /\ [][\A user \in Users, pid \in ProjectIds, text \in RejectTexts :
          (ReviewStart("h1", "reject", user, pid, text) /\ AllSpaces(text)) =>
             /\ h'["h1"].pc = "done" /\ h'["h1"].result \in {403, 409, 422}
             /\ h'["h1"].mailed = {}
             /\ UNCHANGED <<projects, feedbacks, blobs>>]_vars

\* C12 witness: a customer's blank reject of a COMPLETED project was refused
\* before any store operation, and no Feedback exists
C12_Witness ==
  /\ h["h1"].op = "reject" /\ h["h1"].pc = "done" /\ h["h1"].result = 409
  /\ h["h1"].pid = 0
  /\ get_by_id(1).state = COMPLETED /\ feedbacks = <<>>

\* C13: a createProject by a user who is not a customer is refused with 403 and
\* one whose file exceeds max_upload_mb with 413, in its first step: nothing is
\* uploaded, persisted or mailed, and only a customer's request goes on.
C13_CreateRefusedBeforeMutation ==
  /\ []((h["h1"].op = "create" /\ h["h1"].pc /= "done") => Role(h["h1"].user) = "CUSTOMER")
  /\ [][\A user \in Users, lang \in LangInputs, size \in Sizes :
          ( /\ CreateStart("h1", user, lang, size)
            /\ (Role(user) /= "CUSTOMER" \/ size > max_upload_mb * 1024 * 1024) ) =>
             /\ h'["h1"].pc = "done"
             /\ h'["h1"].result = IF Role(user) /= "CUSTOMER" THEN 403 ELSE 413
             /\ h'["h1"].mailed = {} /\ h'["h1"].pid = 0 /\ h'["h1"].blob = 0
             /\ UNCHANGED <<projects, feedbacks, blobs, caps>>]_vars

\* C13 witness: an oversized upload was refused and the store is still empty
C13_Witness ==
  /\ h["h1"].op = "create" /\ h["h1"].pc = "done" /\ h["h1"].result = 413
  /\ projects = <<>> /\ blobs = {}

\* C14: no step of an approve or reject sent by a customer who does not own the
\* project changes the project or the project's Feedback record.
C14_NonOwnerReviewChangesNothing ==
  [][LET k == "h1"
         p == get_by_id(h[k].pid)
     IN (h[k].op \in ReviewOps /\ h'[k] /= h[k] /\ p /= NoProject
           /\ p.customer_id /= h[k].user) =>
          UNCHANGED <<projects, feedbacks>>]_vars

\* C15: an upsert for a project that already has a Feedback record keeps that
\* record's id and project_id, stores the new text, adds no record, and hands the
\* kept id back to the review.
C15_SecondUpsertKeepsId ==
  [][LET k == "h1"
         old == get_by_project_id(h[k].pid)
     IN (h[k].op \in ReviewOps /\ Leaves(k, "upsert") /\ old /= NoFeedback) =>
          /\ get_by_project_id(h[k].pid)' =
               [project_id |-> old.project_id, id |-> old.id, text |-> h[k].text]
          /\ h'[k].fbid = old.id
          /\ Len(feedbacks') = Len(feedbacks)]_vars

\* C15 witness: the project was sent back with text "b" under Feedback id 1; a
\* later approve has upserted text "a" into the same record
C15_Witness ==
  /\ h["h1"].op = "approve" /\ h["h1"].pc = "cas" /\ h["h1"].text = <<"a">>
  /\ get_by_id(1).state = ASSIGNED /\ get_by_id(1).feedback_id = 1
  /\ feedbacks = <<[project_id |-> 1, id |-> 1, text |-> <<"a">>]>>

\* a review of handler k that has made its upsert
Upserted(k) ==
  h[k].op \in ReviewOps /\ h[k].pid /= 0 /\ h[k].pc \in {"cas", "reload", "notify", "done"}

\* C16: the store never holds two Feedback records with the same project_id.
C16_OneFeedbackPerProject ==
  \A i, j \in 1..Len(feedbacks) :
    feedbacks[i].project_id = feedbacks[j].project_id => i = j

\* C16 witness: two reviews of the same project have both upserted, and the
\* project has one Feedback record
C16_Witness ==
  /\ Upserted("h1") /\ Upserted("h2") /\ h["h1"].pid = h["h2"].pid
  /\ h["h1"].text /= h["h2"].text
  /\ Len(feedbacks) = 1 /\ feedbacks[1].project_id = h["h1"].pid

\* project p was sent back by a reject and has not been delivered again since
SentBack(p) == review[p].wins = 1 /\ review[p].target = ASSIGNED
\* translated_file_id is set exactly in the states the lifecycle gives it in
FileIffDelivered(p) ==
  projects[p].translated_file_id /= 0 <=>
    \/ projects[p].state \in {COMPLETED, APPROVED}
    \/ projects[p].state = ASSIGNED /\ SentBack(p)

\* C17: in every reachable state of every project, translated_file_id is set if
\* and only if the state is COMPLETED or APPROVED, or ASSIGNED after a reject.
C17_FileIffDelivered == \A p \in Stored : FileIffDelivered(p)

\* C17 as amended: the same, for every project that is not CLOSED (a CLOSED
\* project keeps the translated file it had when it was closed).
C17_FileIffDeliveredUnlessClosed ==
  \A p \in Stored : projects[p].state /= CLOSED => FileIffDelivered(p)

\* C17 witness: a project sent back by a reject is ASSIGNED and keeps its file
C17_Witness ==
  \E p \in Stored :
    /\ projects[p].state = ASSIGNED /\ SentBack(p)
    /\ projects[p].translated_file_id /= 0

\* C18: a project's feedback_id is set if and only if an approve or reject of
\* that project has won its conditional update (the service returned a Result);
\* a review that has answered 204 is such a review.
C18_FeedbackIdIffReviewed ==
  /\ \A p \in Stored : projects[p].feedback_id /= 0 <=> review[p].ever
  /\ \A k \in Handlers :
       (h[k].op \in ReviewOps /\ h[k].pc = "done" /\ h[k].result = 204) =>
         projects[h[k].pid].feedback_id /= 0

\* C18 witness: an approve has won and answered; the project's feedback_id is
\* the id the review got from its upsert
C18_Witness ==
  \E k \in Handlers :
    /\ h[k].op = "approve" /\ h[k].pc = "done" /\ h[k].result = 204
    /\ projects[h[k].pid].state = APPROVED
    /\ projects[h[k].pid].feedback_id = h[k].fbid /\ review[h[k].pid].ever

\* C19: every file id a stored project holds names a stored file, also after the
\* process has stopped in the middle of a request; an upload that fails ends the
\* request with projects and files as they were.
C19_RefsNameStoredFiles ==
  /\ [](\A p \in Stored :
          /\ projects[p].original_file_id \in blobs
          /\ projects[p].translated_file_id /= 0 => projects[p].translated_file_id \in blobs)
  /\ [][(Leaves("h1", "upload") /\ h'["h1"].pc = "done") =>
          /\ h'["h1"].result = 500
          /\ UNCHANGED <<projects, blobs, feedbacks>>]_vars

\* C19 witness: the process stopped between persisting project 1 and assigning
\* it; the project is CREATED and its original file is stored
C19_Witness ==
  /\ h["h1"].op = "idle"
  /\ get_by_id(1).state = CREATED /\ get_by_id(1).original_file_id \in blobs

\* the store holds the write that the mail of handler k announces
Written(k) ==
  LET p == get_by_id(h[k].pid)
  IN /\ p /= NoProject
     /\ h[k].op = "create" =>
          /\ p.state = IF h[k].chosen = None THEN CLOSED ELSE ASSIGNED
          /\ p.translator_id = h[k].chosen
     /\ h[k].op = "submit" => p.state = COMPLETED /\ p.translated_file_id /= 0
     /\ h[k].op \in ReviewOps => p.state = TargetState(h[k].op) /\ p.feedback_id = h[k].fbid
     /\ h[k].op = "close" => p.state = CLOSED

\* C20: a handler sends (or fails to send) its first mail only from its notify
\* position, when the store already holds the write the mail announces, and the
\* step changes nothing in the store; the write is still there when the request
\* has ended, also when the mail failed.
C20_MailAfterWrite ==
  /\ [](h["h1"].mailed /= {} => Written("h1"))
  /\ [][(h["h1"].mailed = {} /\ h'["h1"].mailed /= {}) =>
          /\ h["h1"].pc = "notify" /\ h'["h1"].pc \in {"reload", "done"}
          /\ Written("h1")
          /\ UNCHANGED <<projects, feedbacks, blobs, caps>>]_vars

\* C20 witness: the mail after a delivered translation failed; the project is
\* still COMPLETED
C20_Witness ==
  /\ h["h1"].op = "submit" /\ h["h1"].pc = "done" /\ h["h1"].result = 500
  /\ h["h1"].mailed /= {}
  /\ get_by_id(h["h1"].pid).state = COMPLETED

\* C21: a failure of the notifier never reaches the caller of the operation: a
\* request that came as far as sending its mail (createProject,
\* submitTranslation, approve, reject, closeProject) ends with its normal
\* successful result, 201 for createProject and 204 for the others.
C21_MailErrorNeverPropagates ==
  (h["h1"].pc = "done" /\ h["h1"].mailed /= {}) =>
     h["h1"].result = (IF h["h1"].op = "create" THEN 201 ELSE 204)

\* createProject's assignment step for project p is still to come in handler k
AwaitsAssignment(k, p) ==
  h[k].op = "create" /\ h[k].pid = p /\ h[k].pc \in {"list", "count", "assign"}

\* C22: translator_id is written by createProject's assignment step and by
\* nothing else.  Once it names a translator it keeps naming that translator
\* through every submitTranslation, approve, reject and closeProject; it changes
\* only in the assignment step of the project's own createProject, to the
\* translator that step chose; and a project whose assignment step is over
\* without a translator (closed because none was available) keeps null.
C22_TranslatorWrittenOnce ==
  [][\A p \in Stored :
       /\ projects[p].translator_id /= None =>
             projects'[p].translator_id = projects[p].translator_id
       /\ projects'[p].translator_id /= projects[p].translator_id =>
             \E k \in Handlers : /\ AwaitsAssignment(k, p) /\ Leaves(k, "assign")
                                 /\ projects'[p].translator_id = h[k].chosen
       /\ (projects[p].translator_id = None /\ ~\E k \in Handlers : AwaitsAssignment(k, p)) =>
             projects'[p].translator_id = None]_vars

\* a project that was assigned, delivered, reviewed and closed still has its translator
C22_Witness ==
  \E p \in Stored :
    /\ projects[p].state = CLOSED /\ projects[p].translator_id = "t1"
    /\ projects[p].translated_file_id /= 0 /\ projects[p].feedback_id /= 0

\* the fields of a stored project that a repository update names in its $set
WrittenFields == {"translator_id", "translated_file_id", "state", "feedback_id"}

\* C23: what a project is created with stays: no step of any operation
\* (assignment, submitTranslation, approve, reject, closeProject) changes a
\* stored project's id, customer_id, language_code or original_file_id, nor any
\* other field that no update names, and no project leaves the store.
C23_CreationFieldsFixed ==
  [][/\ Len(projects') >= Len(projects)
     /\ \A p \in Stored :
          /\ \A f \in (DOMAIN projects[p]) \ WrittenFields : projects'[p][f] = projects[p][f]
          /\ projects'[p].id = projects[p].id
          /\ projects'[p].customer_id = projects[p].customer_id
          /\ projects'[p].language_code = projects[p].language_code
          /\ projects'[p].original_file_id = projects[p].original_file_id]_vars

\* a project that every kind of write has touched still has what it was created with
C23_Witness ==
  \E p \in Stored :
    /\ projects[p].state = CLOSED /\ projects[p].translator_id /= None
    /\ projects[p].translated_file_id /= 0 /\ projects[p].feedback_id /= 0
    /\ projects[p].id = p /\ projects[p].customer_id = "c1"
    /\ projects[p].language_code = "cs" /\ projects[p].original_file_id = 1

\* the capability (translator_id, language_code) is stored
Holds(translator_id, language_code) ==
  \E i \in 1..Len(caps) :
    caps[i].translator_id = translator_id /\ caps[i].language_code = language_code

\* C24: a translator holds a language at most once.  After any sequence of
\* add-language and delete-language requests no two stored capabilities have the
\* same (translator_id, language_code), so no translator is listed twice among
\* the candidates of a language; and adding a pair that is already stored
\* (in either spelling of the code) leaves the capabilities as they were.
C24_OneCapabilityPerPair ==
  /\ [](\A i, j \in 1..Len(caps) : i /= j => caps[i] /= caps[j])
  /\ [](\A lang \in {Lower(l) : l \in LangInputs} :
          LET ids == list_translator_ids_for_language(caps, lang)
          IN \A i, j \in 1..Len(ids) : i /= j => ids[i] /= ids[j])
  /\ [][\A t \in Translators, lang \in CapLangInputs :
          (AddLanguage(t, lang) /\ Holds(t, Lower(lang))) => caps' = caps]_vars

\* both translators hold cs, t1 having dropped it and added it again
C24_Witness ==
  /\ Len(caps) = 2
  /\ list_translator_ids_for_language(caps, "cs") = <<"t2", "t1">>

\* C25: an APPROVED project only moves to CLOSED: however the steps of a
\* submitTranslation and of an approve interleave, no step takes a project
\* whose stored state is APPROVED back to COMPLETED or ASSIGNED.
C25_ApprovedOnlyCloses ==
  [][\A p \in Stored :
       projects[p].state = APPROVED => projects'[p].state \in {APPROVED, CLOSED}]_vars

\* C26: when one request runs to its end before the next starts, every change
\* of a project's stored state is one of CREATED->ASSIGNED and CREATED->CLOSED
\* (createProject's assignment step; the administrator may also close a
\* CREATED project), ASSIGNED->COMPLETED (submitTranslation),
\* COMPLETED->APPROVED (approve), COMPLETED->ASSIGNED (reject) and
\* ASSIGNED/COMPLETED/APPROVED->CLOSED (closeProject), each made by the
\* operation named; a submitTranslation that writes finds the project ASSIGNED
\* or COMPLETED and leaves it COMPLETED (re-upload).
C26_SequentialTransitions ==
  [][\A p \in Stored :
       LET from == projects[p].state
           to == projects'[p].state
           op == h["h1"].op
       IN /\ to /= from =>
               <<from, to, op>> \in
                 {<<CREATED, ASSIGNED, "create">>, <<CREATED, CLOSED, "create">>,
                  <<CREATED, CLOSED, "close">>, <<ASSIGNED, COMPLETED, "submit">>,
                  <<COMPLETED, APPROVED, "approve">>, <<COMPLETED, ASSIGNED, "reject">>,
                  <<ASSIGNED, CLOSED, "close">>, <<COMPLETED, CLOSED, "close">>,
                  <<APPROVED, CLOSED, "close">>}
          /\ (op = "submit" /\ h["h1"].pid = p /\ Leaves("h1", "write")) =>
               from \in {ASSIGNED, COMPLETED} /\ to = COMPLETED]_vars

\* a project that was delivered, sent back by a reject and delivered again
C26_Witness ==
  \E p \in Stored :
    /\ projects[p].state = COMPLETED /\ projects[p].feedback_id /= 0
    /\ get_by_project_id(p).text = <<"b">>
    /\ h["h1"].op = "submit" /\ h["h1"].pc = "done" /\ h["h1"].result = 204

\* the Feedback record of handler k's project is the one k's review wrote
HoldsOwnFeedback(k) ==
  get_by_project_id(h[k].pid) =
    [project_id |-> h[k].pid, id |-> h[k].fbid, text |-> h[k].text]

\* C27: approve and reject write the Feedback before the conditional state
\* update is tried.  When a review stands at the conditional update, the
\* project's Feedback record already carries the review's id and text; and when
\* the update matches nothing, the call is answered with Denied (409) and that
\* record stays as the call wrote it, the project being unchanged.
C27_UpsertPrecedesCheck ==
  /\ []((h["h1"].op \in ReviewOps /\ h["h1"].pc = "cas") => HoldsOwnFeedback("h1"))
  /\ [][(h["h1"].op \in ReviewOps /\ Leaves("h1", "cas") /\ h'["h1"].pc = "done") =>
           /\ h'["h1"].result = 409
           /\ UNCHANGED <<projects, feedbacks>>
           /\ HoldsOwnFeedback("h1")]_vars

\* the owner's reject of an ASSIGNED project was denied, and the project, which
\* no review ever changed, has a Feedback record with the text of that call
C27_Witness ==
  /\ h["h1"].op = "reject" /\ h["h1"].pc = "done" /\ h["h1"].result = 409
  /\ h["h1"].pid \in Stored /\ h["h1"].user = "c1"
  /\ projects[h["h1"].pid].customer_id = "c1"
  /\ projects[h["h1"].pid].state = ASSIGNED
  /\ projects[h["h1"].pid].feedback_id = 0
  /\ HoldsOwnFeedback("h1") /\ h["h1"].text = <<"b">>

\* C28: nothing holds a selection until its write.  The count query of a
\* createProject reads the store and writes nothing, so a second createProject
\* can read the same counts before the first has assigned; and the assignment
\* step writes the translator chosen from the counts read earlier, whatever
\* has been assigned in between.  Two interleaved creations for one language
\* thus both go to the first-listed translator although the other one had the
\* same count when each of them counted.
C28_ChoiceNotHeldUntilWrite ==
  [][\A k \in Handlers :
       /\ (h[k].op = "create" /\ Leaves(k, "count")) =>
             /\ UNCHANGED <<projects, caps>>
             /\ h'[k].chosen = find_best_translator_id(h[k].cands,
                                 count_active_by_translator_ids(projects, h[k].cands))
       /\ (h[k].op = "create" /\ Leaves(k, "assign") /\ h[k].chosen /= None) =>
             /\ projects'[h[k].pid].translator_id = h[k].chosen
             /\ projects'[h[k].pid].state = ASSIGNED]_vars

\* both creations are past their assignment step at once, both projects went to
\* t1, and t2, registered for cs all along, has none
C28_Witness ==
  /\ list_translator_ids_for_language(caps, "cs") = <<"t1", "t2">>
  /\ Len(projects) = 2
  /\ \A k \in Handlers : h[k].op = "create" /\ h[k].pc = "notify" /\ h[k].chosen = "t1"
  /\ h["h1"].pid /= h["h2"].pid
  /\ \A p \in Stored : projects[p].translator_id = "t1" /\ projects[p].state = ASSIGNED

\* the projects of translator t that are ASSIGNED, COMPLETED or APPROVED
OpenProjectsOf(t) ==
  {p \in Stored : projects[p].translator_id = t
                  /\ projects[p].state \in {ASSIGNED, COMPLETED, APPROVED}}

\* C29: the load that selection uses is counted from the store as it is when
\* the selection runs: for every candidate it is the number of stored projects
\* that name the candidate as translator and are ASSIGNED, COMPLETED or
\* APPROVED (a CLOSED project does not count), 0 for a candidate without such
\* a project; and the translator selected is a candidate with the least such
\* number, the first-listed of them.
C29_LoadIsOpenProjects ==
  selOut /= "unset" =>
    /\ \A i \in 1..Len(selIn.cands) :
         CountOf(selIn.counts, selIn.cands[i]) = Cardinality(OpenProjectsOf(selIn.cands[i]))
    /\ selIn.cands = <<>> => selOut = None
    /\ selIn.cands /= <<>> =>
         \E i \in 1..Len(selIn.cands) :
           /\ selOut = selIn.cands[i]
           /\ \A j \in 1..Len(selIn.cands) :
                /\ Cardinality(OpenProjectsOf(selIn.cands[j])) >= Cardinality(OpenProjectsOf(selOut))
                /\ j < i => Cardinality(OpenProjectsOf(selIn.cands[j])) > Cardinality(OpenProjectsOf(selOut))

\* t1 has a COMPLETED, an APPROVED and a CLOSED project and counts 2; t2 has
\* none, counts 0 and is selected although t1 is listed first
C29_Witness ==
  /\ selOut = "t2" /\ selIn.cands = <<"t1", "t2">>
  /\ Len(projects) = 3
  /\ \A p \in Stored : projects[p].translator_id = "t1"
  /\ {projects[p].state : p \in Stored} = {COMPLETED, APPROVED, CLOSED}
  /\ selIn.counts["t1"] = 2 /\ selIn.counts["t2"] = 0

\* C30: translator selection only reads.  The two steps of
\* find_best_translator_id (the capability query, and the count query with the
\* loop) change no project, capability, Feedback or stored file, whatever the
\* language; and when nobody is registered for the language the selection ends
\* with None and the request goes on to its assignment step, not to an error.
C30_SelectionOnlyReads ==
  [][(h["h1"].op = "create" /\ (Leaves("h1", "list") \/ Leaves("h1", "count"))) =>
        /\ UNCHANGED <<projects, caps, feedbacks, blobs>>
        /\ h'["h1"].pc \in {"count", "assign"} /\ h'["h1"].result = 0
        /\ h'["h1"].pc = "assign" =>
              h'["h1"].chosen \in SeqRange(list_translator_ids_for_language(caps, get_by_id(h["h1"].pid).language_code)) \cup {None}
        /\ ~Registered(get_by_id(h["h1"].pid).language_code) =>
              h'["h1"].pc = "assign" /\ h'["h1"].chosen = None]_vars

\* a selection for de has ended with None while translators are registered for
\* cs and another project is assigned: the new project is still as persisted
C30_Witness ==
  /\ h["h1"].op = "create" /\ h["h1"].pc = "assign" /\ h["h1"].chosen = None
  /\ get_by_id(h["h1"].pid).language_code = "de"
  /\ get_by_id(h["h1"].pid).state = CREATED
  /\ caps /= <<>>
  /\ \E p \in Stored : projects[p].state = ASSIGNED

\* C31: when the process does not stop and every step of a createProject is
\* eventually taken, a project that the call has persisted in CREATED comes to
\* be ASSIGNED or CLOSED by the assignment step of that same call.
C31_CreatedIsResolved ==
  \A k \in Handlers : \A p \in ProjectIds :
    (h[k].op = "create" /\ h[k].pid = p /\ h[k].pc = "list" /\ get_by_id(p).state = CREATED)
      ~> (h[k].op = "create" /\ h[k].pid = p /\ h[k].pc = "notify"
          /\ get_by_id(p).state \in {ASSIGNED, CLOSED})

\* h1's call has assigned its project while h2's call has just persisted another
C31_Witness ==
  /\ h["h1"].op = "create" /\ h["h1"].pc = "notify"
  /\ get_by_id(h["h1"].pid).state = ASSIGNED
  /\ h["h2"].op = "create" /\ h["h2"].pc = "list"
  /\ get_by_id(h["h2"].pid).state = CREATED

\* project p is CREATED and no createProject is working on it any more
Stranded(p) ==
  /\ projects[p].state = CREATED
  /\ \A k \in Handlers : ~(h[k].op = "create" /\ h[k].pid = p)

\* C32: a project that a stopped createProject left in CREATED has no
\* translator and stays as it is: no step of a submitTranslation, approve or
\* reject of any user changes the project, and the one step that does change it
\* is the administrator's closeProject writing CLOSED.
C32_StrandedOnlyClosed ==
  /\ [](\A p \in Stored : Stranded(p) => projects[p].translator_id = None)
  /\ [][\A p \in Stored :
          (Stranded(p) /\ projects'[p] /= projects[p]) =>
             /\ h["h1"].op = "close" /\ h["h1"].user \in Admins /\ h["h1"].pid = p
             /\ projects'[p] = [projects[p] EXCEPT !.state = CLOSED]]_vars

\* the owner's review of a stranded project was denied and the project is
\* still CREATED without a translator
C32_Witness ==
  \E p \in Stored :
    /\ Stranded(p) /\ projects[p].translator_id = None
    /\ h["h1"].op \in ReviewOps /\ h["h1"].pc = "done" /\ h["h1"].result = 409
    /\ h["h1"].pid = p /\ h["h1"].user = projects[p].customer_id

\* C33: a reject whose text is blank is answered with ValidationFailed (422),
\* not with the Conflict (409) that a conditional update matching nothing
\* produces: a customer's reject with an empty or all-space text ends with 422.
C33_BlankRejectIsValidationFailed ==
  [][\A user \in Customers, pid \in ProjectIds, text \in RejectTexts :
       (ReviewStart("h1", "reject", user, pid, text) /\ AllSpaces(text)) =>
          h'["h1"].pc = "done" /\ h'["h1"].result = 422]_vars

\* C34: a submitTranslation of a caller who is not the project's translator is
\* answered Forbidden (403), and one of the project's translator on a project
\* found CREATED, APPROVED or CLOSED is answered Conflict (409); in both cases
\* no file is uploaded, no project changes and nobody is mailed.  No
\* submitTranslation that ends with Forbidden or Conflict, at whichever of its
\* steps, has mailed the customer.
C34_SubmitRefusals ==
  /\ [][\A user \in Users, pid \in ProjectIds, size \in Sizes :
          (SubmitStart("h1", user, pid, size) /\ pid \in Stored) =>
             LET project == get_by_id(pid)
                 RefusedWith(code) ==
                   /\ h'["h1"].pc = "done" /\ h'["h1"].result = code
                   /\ h'["h1"].mailed = {} /\ h'["h1"].blob = 0
                   /\ UNCHANGED <<projects, blobs, feedbacks>>
             IN /\ project.translator_id /= user => RefusedWith(403)
                /\ (project.translator_id = user
                      /\ project.state \in {CREATED, APPROVED, CLOSED}) => RefusedWith(409)]_vars
  /\ []((h["h1"].op = "submit" /\ h["h1"].pc = "done" /\ h["h1"].result \in {403, 409}) =>
          h["h1"].mailed = {})

\* the translator's submit on their APPROVED project was answered 409; the
\* project still has the file and the state it had
C34_Witness ==
  /\ h["h1"].op = "submit" /\ h["h1"].pc = "done" /\ h["h1"].result = 409
  /\ h["h1"].mailed = {}
  /\ Len(projects) = 1 /\ projects[1].state = APPROVED
  /\ projects[1].translator_id = "t1" /\ projects[1].translated_file_id \in blobs
  /\ blobs = {projects[1].original_file_id, projects[1].translated_file_id}

\* C35: in every reachable state, however the handlers interleave, a CREATED
\* project has no translator, an ASSIGNED, COMPLETED or APPROVED project has
\* one, and an APPROVED project has a feedback_id.
C35_StateFieldsAgree ==
  \A p \in Stored :
    /\ projects[p].state = CREATED => projects[p].translator_id = None
    /\ projects[p].state \in {ASSIGNED, COMPLETED, APPROVED} =>
          projects[p].translator_id \in Translators
    /\ projects[p].state = APPROVED => projects[p].feedback_id /= 0

\* an APPROVED project with its translator and its feedback_id, approved while
\* the other handler was inside a request on the same project
C35_Witness ==
  \E p \in Stored :
    /\ projects[p].state = APPROVED /\ projects[p].translator_id = "t1"
    /\ projects[p].feedback_id /= 0
    /\ h["h1"].op = "approve" /\ h["h1"].pc = "reload" /\ h["h1"].pid = p
    /\ h["h2"].op = "submit" /\ h["h2"].pc = "write" /\ h["h2"].pid = p

\* C36: whenever a project's feedback_id is set, the Feedback record stored for
\* the project has that id, however approve and reject calls interleave.
C36_FeedbackIdNamesRecord ==
  \A p \in Stored :
    projects[p].feedback_id /= 0 => get_by_project_id(p).id = projects[p].feedback_id

\* C37: from an empty store, with the translators of a language registered
\* before the first request, after any number of createProject calls for the
\* language that run one after the other and nothing else, the numbers of
\* active projects of any two registered translators differ by at most 1.
C37_LoadsBalanced ==
  \A t, u \in SeqRange(list_translator_ids_for_language(caps, "cs")) :
    Cardinality(OpenProjectsOf(t)) - Cardinality(OpenProjectsOf(u)) <= 1

\* three creations shared by two registered translators: two projects and one
C37_Witness ==
  /\ SeqRange(list_translator_ids_for_language(caps, "cs")) = Translators
  /\ Len(projects) = 3
  /\ h["h1"].op = "create" /\ h["h1"].pc = "done" /\ h["h1"].result = 201
  /\ {Cardinality(OpenProjectsOf(t)) : t \in Translators} = {1, 2}

====
